---- MODULE Spec2Model ----
(***************************************************************************)
(* A model of disseminator.DownloadHandler.ServeHTTP (download.go): one    *)
(* request handled by one handler, split at the blocking collaborator      *)
(* calls (Auth.Check, Fedora.GetDatastreamInfo, Fedora.GetDatastream,      *)
(* io.Copy).  Strings the code takes apart (the URL path, the version      *)
(* identifier) are sequences of one-character strings.                     *)
(***************************************************************************)
EXTENDS Integers, Sequences, FiniteSets, TLC

----------------------------------------------------------------------------
(* Bounds of the model *)

\* longest request path, in characters
MaxPathLen == 4
\* most values of the If-None-Match header
MaxEtags == 2
\* most chunks io.Copy reads from a datastream
MaxChunks == 1
\* longest Datastream_id list of a configured handler
MaxIds == 2

----------------------------------------------------------------------------
(* Input alphabets *)

\* '/' separates segments, '3' is a digit, '-' is a sign or plain text
PathChars == {"/", "3", "-"}

Methods == {"GET", "POST"}

\* namespace prefixes a handler may be configured with ("" and "v:")
Prefixes == {<<>>, <<"v", ":">>}

\* version identifiers the repository may report: "a.3", "a.33", "a" (no
\* '.'), "3.a" (no integer after the last '.')
VersionIDs ==
  {<<"a", ".", "3">>, <<"a", ".", "3", "3">>, <<"a">>, <<"3", ".", "a">>}

\* errors a Fedora call may return: the sentinel fedora.FedoraNotFound, or
\* any other error
FedoraNotFound == "FedoraNotFound"

FedoraErrors == {FedoraNotFound, "OtherError"}

\* values of auth.Check's result type: the four named ones and one outside
AuthAllow == "AuthAllow"

AuthDeny == "AuthDeny"

AuthNotFound == "AuthNotFound"

AuthError == "AuthError"

AuthDecisions == {AuthAllow, AuthDeny, AuthNotFound, AuthError, "AuthUnnamed"}

\* values a client may send in If-None-Match
ETagVals == {<<"a", ".", "3">>, <<"a", ".", "3", "3">>}

RECURSIVE SeqsUpTo(_, _)
SeqsUpTo(S, n) ==
  IF n = 0 THEN {<<>>}
  ELSE LET shorter == SeqsUpTo(S, n - 1)
       IN  shorter \cup {Append(s, c) : s \in {t \in shorter : Len(t) = n - 1}, c \in S}

Paths == SeqsUpTo(PathChars, MaxPathLen)

\* r.Header["If-None-Match"]: absent (ok = FALSE) or a list of values
NoHeader == [ok |-> FALSE, vals |-> <<>>]

IfNoneMatchHeaders ==
  {NoHeader} \cup {[ok |-> TRUE, vals |-> v] : v \in SeqsUpTo(ETagVals, MaxEtags)}

----------------------------------------------------------------------------
(* package strings / strconv, as the handler uses them *)

\* strings.TrimLeft(s, "/") in its place: every leading '/' goes
RECURSIVE TrimPrefixSlash_All(_)
TrimPrefixSlash_All(s) ==
  IF Len(s) > 0 /\ s[1] = "/" THEN TrimPrefixSlash_All(SubSeq(s, 2, Len(s))) ELSE s

\* strings.TrimPrefix(s, "/")
TrimPrefixSlash(s) ==
  IF Len(s) > 0 /\ s[1] = "/" THEN SubSeq(s, 2, Len(s)) ELSE s

\* strings.TrimSuffix(s, "/")
TrimSuffixSlash(s) ==
  IF Len(s) > 0 /\ s[Len(s)] = "/" THEN SubSeq(s, 1, Len(s) - 1) ELSE s

\* strings.Index(s, c), 1-based; 0 when c does not occur
Index(s, c) ==
  IF \E i \in 1..Len(s) : s[i] = c
  THEN CHOOSE i \in 1..Len(s) : s[i] = c /\ \A j \in 1..(i - 1) : s[j] # c
  ELSE 0

\* strings.LastIndex(s, c), 1-based; 0 when c does not occur
LastIndex(s, c) ==
  IF \E i \in 1..Len(s) : s[i] = c
  THEN CHOOSE i \in 1..Len(s) : s[i] = c /\ \A j \in (i + 1)..Len(s) : s[j] # c
  ELSE 0

\* strings.SplitN(s, "/", 2)
SplitN2(s) ==
  LET i == Index(s, "/")
  IN  IF i = 0 THEN <<s>>
      ELSE <<SubSeq(s, 1, i - 1), SubSeq(s, i + 1, Len(s))>>

DigitVal ==
  [c \in {"0", "1", "2", "3", "4", "5", "6", "7", "8", "9"} |->
     CASE c = "0" -> 0 [] c = "1" -> 1 [] c = "2" -> 2 [] c = "3" -> 3
       [] c = "4" -> 4 [] c = "5" -> 5 [] c = "6" -> 6 [] c = "7" -> 7
       [] c = "8" -> 8 [] c = "9" -> 9]

IsDigit(c) == c \in DOMAIN DigitVal

RECURSIVE DigitsValue(_)
DigitsValue(s) ==
  IF Len(s) = 0 THEN 0
  ELSE 10 * DigitsValue(SubSeq(s, 1, Len(s) - 1)) + DigitVal[s[Len(s)]]

\* strconv.Atoi(s) for strings shorter than 19 characters (its fast path):
\* an optional sign, then one or more decimal digits; anything else is a
\* syntax error and the value is 0.
Atoi(s) ==
  LET signed == Len(s) > 0 /\ s[1] \in {"-", "+"}
      digits == IF signed THEN SubSeq(s, 2, Len(s)) ELSE s
  IN  IF Len(digits) = 0 \/ \E i \in 1..Len(digits) : ~IsDigit(digits[i])
      THEN [err |-> TRUE, val |-> 0]
      ELSE [err |-> FALSE,
            val |-> IF signed /\ s[1] = "-" THEN 0 - DigitsValue(digits)
                    ELSE DigitsValue(digits)]

----------------------------------------------------------------------------
(* fedora.DsInfo and the response writer *)

\* the zero fedora.DsInfo
NoInfo == [Label |-> <<>>, VersionID |-> <<>>, Type |-> <<>>, Length |-> <<>>]

\* chunks of content the repository holds for a version
ChunksOf(vid) == Len(vid) % (MaxChunks + 1)

\* a byte count as the text fedora reports it, one byte to a chunk
LengthText(n) ==
  <<CASE n = 0 -> "0" [] n = 1 -> "1" [] n = 2 -> "2" [] OTHER -> "3">>

\* the descriptor the repository reports for the version vid
DsInfoOf(vid) ==
  [Label |-> <<"l", "-">> \o vid,
   VersionID |-> vid,
   Type |-> <<"application/pdf">>,
   Length |-> LengthText(ChunksOf(vid))]

HeaderNames ==
  {"Content-Type", "Content-Length", "Content-Disposition",
   "Content-Transfer-Encoding", "Cache-Control", "ETag",
   "X-Content-Type-Options"}

\* a fresh http.ResponseWriter: no status written, no header set, no body
NewResponse ==
  [status |-> 0, header |-> [h \in HeaderNames |-> <<>>], body |-> <<>>]

\* http.Error(w, msg, code)
HttpError(resp, msg, code) ==
  [status |-> code,
   header |-> [resp.header EXCEPT
                 !["Content-Type"] = <<"text/plain; charset=utf-8">>,
                 !["X-Content-Type-Options"] = <<"nosniff">>],
   body |-> Append(resp.body, msg)]

\* notFound(w)
notFound(resp) == HttpError(resp, "404 Not Found", 404)

----------------------------------------------------------------------------
(* The decisions ServeHTTP takes *)

\* the method gate left out
MethodPasses_Any(method) == TRUE

\* line 74: the method gate lets the request through
MethodPasses(method) == method = "GET"

\* a Deny that falls through to the Allow case
AuthStatus_DenyProceeds(d) ==
  CASE d = AuthDeny -> 0
    [] d = AuthNotFound -> 404
    [] d = AuthAllow -> 0
    [] OTHER -> 500

\* the default case missing from the switch: an unnamed decision proceeds
AuthStatus_NoDefault(d) ==
  CASE d = AuthDeny -> 401
    [] d = AuthNotFound -> 404
    [] d = AuthAllow -> 0
    [] d = AuthError -> 500
    [] OTHER -> 0

\* lines 91-106: the response status for a decision of Auth.Check; 0 when the
\* request proceeds
AuthStatus(d) ==
  CASE d = AuthDeny -> 401
    [] d = AuthNotFound -> 404
    [] d = AuthAllow -> 0
    [] OTHER -> 500

\* the Versioned flag not consulted
FigureVersion_IgnoresVersioned(versioned, comps) ==
  IF Len(comps) = 1 THEN [ok |-> TRUE, version |-> -1]
  ELSE IF ~Atoi(comps[2]).err /\ Atoi(comps[2]).val >= 0
       THEN [ok |-> TRUE, version |-> Atoi(comps[2]).val]
       ELSE [ok |-> FALSE, version |-> -1]

\* lines 109-125: the version asked for; -1 is the current version, and
\* ok = FALSE is the 404 of the fallthrough
FigureVersion(versioned, comps) ==
  IF Len(comps) = 1 THEN [ok |-> TRUE, version |-> -1]
  ELSE IF versioned /\ ~Atoi(comps[2]).err /\ Atoi(comps[2]).val >= 0
       THEN [ok |-> TRUE, version |-> Atoi(comps[2]).val]
       ELSE [ok |-> FALSE, version |-> -1]

\* every metadata error reported as a server error
InfoErrStatus_AlwaysServerError(e) == 500

\* lines 128-132: the status for an error of GetDatastreamInfo
InfoErrStatus(e) == 404

\* DownloadHandler.currentVersion
currentVersion(info) ==
  LET i == LastIndex(info.VersionID, ".")
      n == Atoi(SubSeq(info.VersionID, i + 1, Len(info.VersionID)))
  IN  IF i = 0 THEN -1
      ELSE IF n.err THEN -1
      ELSE n.val

\* an older version than the current one let through
VersionMismatch_OnlyNewer(v, info) == v >= 0 /\ v > currentVersion(info)

\* an unresolved current version (-1) taken as "nothing to compare with"
VersionMismatch_UnknownPasses(v, info) ==
  v >= 0 /\ currentVersion(info) >= 0 /\ v # currentVersion(info)

\* line 135
VersionMismatch(v, info) == v >= 0 /\ v # currentVersion(info)

\* only the first If-None-Match value compared
ETagMatch_FirstOnly(h, vid) == h.ok /\ Len(h.vals) > 0 /\ h.vals[1] = vid

\* lines 141-150: some If-None-Match value is the version identifier
ETagMatch(h, vid) == h.ok /\ \E i \in 1..Len(h.vals) : h.vals[i] = vid

\* every content error reported as not found, as the metadata stage does
ContentErrStatus_AlwaysNotFound(e) == 404

\* lines 155-163: the status for an error of GetDatastream
ContentErrStatus(e) == IF e = FedoraNotFound THEN 404 ELSE 500

\* the defer statement left out
DeferredAfterFetch_None == <<>>

\* line 165: the calls deferred once GetDatastream has succeeded
DeferredAfterFetch == <<"Close">>

\* lines 169-174
SuccessHeaders(resp, meta, desc) ==
  [resp EXCEPT
     !.header = [resp.header EXCEPT
        !["Content-Type"] = desc.Type,
        !["Content-Length"] = desc.Length,
        !["Content-Disposition"] = <<"inline; filename=\"">> \o meta.Label \o <<"\"">>,
        !["Content-Transfer-Encoding"] = <<"binary">>,
        !["Cache-Control"] = <<"private">>,
        !["ETag"] = meta.VersionID]]

----------------------------------------------------------------------------
(* State *)

VARIABLES
  dh,          \* the handler: [Versioned, Prefix, Auth] (Auth: dh.Auth != nil)
  r,           \* the request: [Method, Path, IfNoneMatch]
  pc,          \* where ServeHTTP stands
  components,  \* strings.SplitN(path, "/", 2)
  pid,         \* dh.Prefix + components[0]
  version,     \* the version asked for, -1 for the current one
  decision,    \* what Auth.Check returned, "none" before it is called
  err,         \* the error of the last Fedora call, "nil" when none
  dsinfo,      \* the result of GetDatastreamInfo
  info,        \* the descriptor GetDatastream returned
  content,     \* the byte stream: [open, chunks, read, closed]
  deferred,    \* the deferred calls of this ServeHTTP
  copyErr,     \* how io.Copy ended: "nil", "read" or "write"; "none" before
  w,           \* the response: [status, header, body]
  calls        \* the collaborator calls made, in order: [op, arg]

\* a Go map with no entry
EmptyMap == [x \in {} |-> x]

\* m[x] = v
Put(m, x, v) == [y \in DOMAIN m \cup {x} |-> IF y = x THEN v ELSE m[y]]

\* the target of a dispatch that found no handler
NoTarget ==
  [found |-> FALSE,
   h |-> [Ds |-> "", Versioned |-> FALSE, Prefix |-> <<>>, Auth |-> FALSE],
   k |-> ""]

\* no request dispatched yet
NotServed == [port |-> "", seg |-> "", target |-> NoTarget]

\* the state of runHandlers and of what it starts
VARIABLES
  config,        \* config.Handler: section name -> its settings
  rpc,           \* where runHandlers stands; "off" when it is not running
  todo,          \* the sections the first loop has still to range over
  hs,            \* the variables h that closures captured, by variable
  ks,            \* the variables k that closures captured, by variable
  portHandlers,  \* port -> its *DsidMux
  muxCalls,      \* the writes made to the routers
  listeners,     \* the goroutines started: port -> "running" or "exited"
  wg,            \* the counter of the sync.WaitGroup
  lastServed     \* the last request a listener dispatched

\* the variables of ServeHTTP
svars ==
  <<dh, r, pc, components, pid, version, decision, err, dsinfo, info,
    content, deferred, copyErr, w, calls>>

\* the variables of runHandlers
rvars ==
  <<config, rpc, todo, hs, ks, portHandlers, muxCalls, listeners, wg,
    lastServed>>

vars == <<svars, rvars>>

\* the values of the runHandlers variables while it is not running
RunOff ==
  /\ config = EmptyMap
  /\ rpc = "off"
  /\ todo = {}
  /\ hs = EmptyMap
  /\ ks = EmptyMap
  /\ portHandlers = EmptyMap
  /\ muxCalls = {}
  /\ listeners = EmptyMap
  /\ wg = 0
  /\ lastServed = NotServed

NoRequest == [Method |-> "", Path |-> <<>>, IfNoneMatch |-> NoHeader]

\* no byte stream: GetDatastream was not called or it failed
NoContent == [open |-> FALSE, chunks |-> 0, read |-> 0, closed |-> 0]

Handlers ==
  [Versioned : BOOLEAN, Prefix : Prefixes, Auth : BOOLEAN]

Requests ==
  [Method : Methods, Path : Paths, IfNoneMatch : IfNoneMatchHeaders]

Init ==
  /\ dh \in Handlers
  /\ r = NoRequest
  /\ pc = "idle"
  /\ components = <<>>
  /\ pid = <<>>
  /\ version = -1
  /\ decision = "none"
  /\ err = "nil"
  /\ dsinfo = NoInfo
  /\ info = NoInfo
  /\ content = NoContent
  /\ deferred = <<>>
  /\ copyErr = "none"
  /\ w = NewResponse
  /\ calls = <<>>
  /\ RunOff

----------------------------------------------------------------------------
(* ServeHTTP, one action per stretch between blocking calls *)

\* the server hands a request to ServeHTTP
Receive ==
  /\ pc = "idle"
  /\ \E req \in Requests : r' = req
  /\ pc' = "gate"
  /\ UNCHANGED <<copyErr, dh, components, pid, version, decision, err, dsinfo, info,
                 content, deferred, w, calls>>
  /\ UNCHANGED rvars

\* lines 74-88: the method gate and the parsing of the path
Gate ==
  /\ pc = "gate"
  /\ IF ~MethodPasses(r.Method)
     THEN /\ w' = notFound(w)
          /\ pc' = "return"
          /\ UNCHANGED <<components, pid>>
     ELSE LET path == TrimSuffixSlash(TrimPrefixSlash(r.Path))
          IN  /\ components' = SplitN2(path)
              /\ pid' = dh.Prefix \o SplitN2(path)[1]
              /\ pc' = "auth"
              /\ w' = w
  /\ UNCHANGED <<copyErr, dh, r, version, decision, err, dsinfo, info, content,
                 deferred, calls>>
  /\ UNCHANGED rvars

\* the switch on the path components (lines 109-125) placed before the call
\* of Auth.Check
AuthCheck_VersionFirst ==
  /\ pc = "auth"
  /\ IF ~FigureVersion(dh.Versioned, components).ok
     THEN /\ pc' = "return"
          /\ w' = notFound(w)
          /\ UNCHANGED <<decision, calls>>
     ELSE IF ~dh.Auth
     THEN /\ pc' = "version"
          /\ UNCHANGED <<decision, w, calls>>
     ELSE \E d \in AuthDecisions :
            /\ decision' = d
            /\ calls' = Append(calls, [op |-> "Check", arg |-> pid])
            /\ IF AuthStatus(d) = 0
               THEN /\ pc' = "version"
                    /\ w' = w
               ELSE /\ pc' = "return"
                    /\ w' = CASE AuthStatus(d) = 401 ->
                                   HttpError(w, "401 Unauthorized", 401)
                              [] AuthStatus(d) = 404 -> notFound(w)
                              [] OTHER ->
                                   HttpError(w, "500 Server Error", AuthStatus(d))
  /\ UNCHANGED <<copyErr, dh, r, components, pid, version, err, dsinfo, info, content,
                 deferred>>
  /\ UNCHANGED rvars

\* lines 90-107: the call of Auth.Check and the switch on its decision
AuthCheck ==
  /\ pc = "auth"
  /\ IF ~dh.Auth
     THEN /\ pc' = "version"
          /\ UNCHANGED <<decision, w, calls>>
     ELSE \E d \in AuthDecisions :
            /\ decision' = d
            /\ calls' = Append(calls, [op |-> "Check", arg |-> pid])
            /\ IF AuthStatus(d) = 0
               THEN /\ pc' = "version"
                    /\ w' = w
               ELSE /\ pc' = "return"
                    /\ w' = CASE AuthStatus(d) = 401 ->
                                   HttpError(w, "401 Unauthorized", 401)
                              [] AuthStatus(d) = 404 -> notFound(w)
                              [] OTHER ->
                                   HttpError(w, "500 Server Error", AuthStatus(d))
  /\ UNCHANGED <<copyErr, dh, r, components, pid, version, err, dsinfo, info, content,
                 deferred>>
  /\ UNCHANGED rvars

\* lines 108-125: the switch on the number of path components
Versions ==
  /\ pc = "version"
  /\ LET fv == FigureVersion(dh.Versioned, components)
     IN  IF fv.ok
         THEN /\ version' = fv.version
              /\ pc' = "info"
              /\ w' = w
         ELSE /\ version' = IF dh.Versioned THEN Atoi(components[2]).val
                            ELSE version
              /\ pc' = "return"
              /\ w' = notFound(w)
  /\ UNCHANGED <<copyErr, dh, r, components, pid, decision, err, dsinfo, info, content,
                 deferred, calls>>
  /\ UNCHANGED rvars

\* a failed metadata fetch tried once more before giving up
GetDatastreamInfo_Retry ==
  /\ pc = "info"
  /\ calls' = Append(calls, [op |-> "GetDatastreamInfo", arg |-> pid])
  /\ \/ \E vid \in VersionIDs :
          /\ dsinfo' = DsInfoOf(vid)
          /\ err' = "nil"
          /\ pc' = "reconcile"
          /\ w' = w
     \/ \E e \in FedoraErrors :
          /\ dsinfo' = NoInfo
          /\ err' = e
          /\ IF calls = <<>> \/ calls[Len(calls)].op # "GetDatastreamInfo"
             THEN /\ pc' = "info"
                  /\ w' = w
             ELSE /\ pc' = "return"
                  /\ w' = HttpError(w, "404 Not Found", InfoErrStatus(e))
  /\ UNCHANGED <<copyErr, dh, r, components, pid, version, decision, info, content,
                 deferred>>
  /\ UNCHANGED rvars

\* lines 127-132: the metadata fetch
GetDatastreamInfo ==
  /\ pc = "info"
  /\ calls' = Append(calls, [op |-> "GetDatastreamInfo", arg |-> pid])
  /\ \/ \E vid \in VersionIDs :
          /\ dsinfo' = DsInfoOf(vid)
          /\ err' = "nil"
          /\ pc' = "reconcile"
          /\ w' = w
     \/ \E e \in FedoraErrors :
          /\ dsinfo' = NoInfo
          /\ err' = e
          /\ pc' = "return"
          /\ w' = HttpError(w, "404 Not Found", InfoErrStatus(e))
  /\ UNCHANGED <<copyErr, dh, r, components, pid, version, decision, info, content,
                 deferred>>
  /\ UNCHANGED rvars

\* the If-None-Match check (lines 141-150) placed before the version check
Reconcile_ETagFirst ==
  /\ pc = "reconcile"
  /\ IF ETagMatch(r.IfNoneMatch, dsinfo.VersionID)
     THEN /\ w' = [w EXCEPT !.header["ETag"] = dsinfo.VersionID,
                            !.status = 304]
          /\ pc' = "return"
     ELSE IF VersionMismatch(version, dsinfo)
     THEN /\ w' = HttpError(w, "403 Forbidden", 403)
          /\ pc' = "return"
     ELSE /\ w' = w
          /\ pc' = "content"
  /\ UNCHANGED <<copyErr, dh, r, components, pid, version, decision, err, dsinfo, info,
                 content, deferred, calls>>
  /\ UNCHANGED rvars

\* lines 134-150: the version check and the If-None-Match check
Reconcile ==
  /\ pc = "reconcile"
  /\ IF VersionMismatch(version, dsinfo)
     THEN /\ w' = HttpError(w, "403 Forbidden", 403)
          /\ pc' = "return"
     ELSE IF ETagMatch(r.IfNoneMatch, dsinfo.VersionID)
     THEN /\ w' = [w EXCEPT !.header["ETag"] = dsinfo.VersionID,
                            !.status = 304]
          /\ pc' = "return"
     ELSE /\ w' = w
          /\ pc' = "content"
  /\ UNCHANGED <<copyErr, dh, r, components, pid, version, decision, err, dsinfo, info,
                 content, deferred, calls>>
  /\ UNCHANGED rvars

\* lines 153-174: the content fetch, the deferred Close, the headers
GetDatastream ==
  /\ pc = "content"
  /\ calls' = Append(calls, [op |-> "GetDatastream", arg |-> pid])
  /\ \/ \E vid \in VersionIDs :
          /\ info' = DsInfoOf(vid)
          /\ content' = [open |-> TRUE, chunks |-> ChunksOf(vid),
                         read |-> 0, closed |-> 0]
          /\ err' = "nil"
          /\ deferred' = DeferredAfterFetch \o deferred
          /\ w' = SuccessHeaders(w, dsinfo, DsInfoOf(vid))
          /\ pc' = "copy"
     \/ \E e \in FedoraErrors :
          /\ err' = e
          /\ w' = IF ContentErrStatus(e) = 404 THEN notFound(w)
                  ELSE HttpError(w, "500 Internal Error", ContentErrStatus(e))
          /\ pc' = "return"
          /\ UNCHANGED <<info, content, deferred>>
  /\ UNCHANGED <<copyErr, dh, r, components, pid, version, decision, dsinfo>>
  /\ UNCHANGED rvars

\* w.Write(chunk): the first write sends the 200 status line
WriteChunk(resp, chunk) ==
  [resp EXCEPT !.status = IF resp.status = 0 THEN 200 ELSE resp.status,
               !.body = Append(resp.body, chunk)]

\* line 176: one round of io.Copy's loop; it ends at the end of the stream,
\* at a failed read, or at a failed write (the client has gone away)
Copy ==
  /\ pc = "copy"
  /\ \/ /\ content.read < content.chunks
        /\ content' = [content EXCEPT !.read = content.read + 1]
        /\ \/ /\ w' = WriteChunk(w, "chunk")
              /\ pc' = "copy"
              /\ copyErr' = copyErr
           \/ /\ w' = [w EXCEPT !.status = IF w.status = 0 THEN 200 ELSE w.status]
              /\ pc' = "return"
              /\ copyErr' = "write"
     \/ /\ content.read < content.chunks
        /\ pc' = "return"
        /\ copyErr' = "read"
        /\ UNCHANGED <<content, w>>
     \/ /\ content.read = content.chunks
        /\ pc' = "return"
        /\ copyErr' = "nil"
        /\ UNCHANGED <<content, w>>
  /\ UNCHANGED <<dh, r, components, pid, version, decision, err, dsinfo, info,
                 deferred, calls>>
  /\ UNCHANGED rvars

\* what running one deferred call does to the byte stream
RunDeferred(c, d) ==
  IF d = "Close" THEN [c EXCEPT !.open = FALSE, !.closed = c.closed + 1] ELSE c

RECURSIVE RunAllDeferred(_, _)
RunAllDeferred(c, ds) ==
  IF ds = <<>> THEN c ELSE RunAllDeferred(RunDeferred(c, Head(ds)), Tail(ds))

\* every return of ServeHTTP: the deferred calls run, and the server sends
\* the 200 status line if the handler wrote none
Return ==
  /\ pc = "return"
  /\ content' = RunAllDeferred(content, deferred)
  /\ calls' = calls \o [i \in 1..Len(deferred) |-> [op |-> deferred[i], arg |-> <<>>]]
  /\ deferred' = <<>>
  /\ w' = [w EXCEPT !.status = IF w.status = 0 THEN 200 ELSE w.status]
  /\ pc' = "done"
  /\ UNCHANGED <<copyErr, dh, r, components, pid, version, decision, err, dsinfo, info>>
  /\ UNCHANGED rvars

Next ==
  \/ Receive
  \/ Gate
  \/ AuthCheck
  \/ Versions
  \/ GetDatastreamInfo
  \/ Reconcile
  \/ GetDatastream
  \/ Copy
  \/ Return

Spec == Init /\ [][Next]_vars

----------------------------------------------------------------------------
(* runHandlers: the route tables, the listeners, the wait *)

\* section names of [handler "..."] in the configuration file
HandlerKeys == {"h1", "h2"}

Ports == {"8080", "8081"}

\* the port of the pprof listener (line 256)
PprofPort == "6060"

\* Datastream_id values: the literal "default" and two segment names
SegNames == {"default", "a", "b"}

IdLists == SeqsUpTo(SegNames, MaxIds)

\* first path segments a client may ask a listener for
RequestSegs == SegNames \cup {"x"}

\* the settings a section may hold; h1 asks for authorization and serves
\* "content", h2 is versioned and serves "thumbnail"
Settings(k) ==
  [Port : Ports,
   Auth : {k = "h1"},
   Versioned : {k = "h2"},
   Prefix : {<<>>},
   Datastream : {IF k = "h1" THEN "content" ELSE "thumbnail"},
   Datastream_id : IdLists]

\* config.Handler; main returns before runHandlers when it is empty
Configs ==
  UNION {{c \in [K -> UNION {Settings(k) : k \in K}] :
            \A k \in K : c[k] \in Settings(k)} :
         K \in (SUBSET HandlerKeys) \ {{}}}

\* lines 202-210: the DownloadHandler built from the settings v
HandlerOf(v) ==
  [Ds |-> v.Datastream, Versioned |-> v.Versioned, Prefix |-> v.Prefix,
   Auth |-> v.Auth]

\* one variable h shared by every iteration (declared before the loop)
HVar_Shared(k) == "loop"

\* line 202: h := ... declares a new variable h in each iteration; the
\* variable of the iteration over section k is named by k
HVar(k) == k

\* line 223: k := k declares a new variable k in each iteration
KVar(k) == k

\* a nil http.Handler
Nil == [h |-> "nil", k |-> "nil"]

\* lines 224-238: the closure; it holds the variables h and k, not their values
Closure(k) == [h |-> HVar(k), k |-> KVar(k)]

\* line 219: &DsidMux{}
NewMux == [DefaultHandler |-> Nil, handlers |-> EmptyMap]

\* DsidMux.AddHandler: the last registration of a name wins
AddHandler(mux, name, hh) == [mux EXCEPT !.handlers = Put(mux.handlers, name, hh)]

\* the test for the literal left out
IsDefaultName_Never(name) == FALSE

\* line 243
IsDefaultName(name) == name = "default"

\* lines 242-248
RECURSIVE RegisterIds(_, _, _)
RegisterIds(mux, ids, hh) ==
  IF ids = <<>> THEN mux
  ELSE RegisterIds(IF IsDefaultName(Head(ids))
                   THEN [mux EXCEPT !.DefaultHandler = hh]
                   ELSE AddHandler(mux, Head(ids), hh),
                   Tail(ids), hh)

\* lines 239-248
Register(mux, ids, hh) ==
  RegisterIds(IF Len(ids) = 0 THEN [mux EXCEPT !.DefaultHandler = hh] ELSE mux,
              ids, hh)

\* the writes lines 239-248 make to the router of port
WritesOf(port, ids, hh) ==
  {[op |-> "DefaultHandler", port |-> port, name |-> "", hh |-> hh] :
     x \in IF Len(ids) = 0 THEN {1} ELSE {}}
  \cup
  {[op |-> IF IsDefaultName(ids[i]) THEN "DefaultHandler" ELSE "AddHandler",
    port |-> port, name |-> ids[i], hh |-> hh] : i \in 1..Len(ids)}

\* DsidMux.ServeHTTP: the handler registered for the segment, else the default
Lookup(mux, seg) ==
  IF seg \in DOMAIN mux.handlers THEN mux.handlers[seg] ELSE mux.DefaultHandler

\* lines 225-238: calling the closure reads its variables h and k
Invoke(hh) ==
  IF hh = Nil THEN NoTarget
  ELSE [found |-> TRUE, h |-> hs[hh.h], k |-> ks[hh.k]]

\* listeners started while the handlers are still being created
ListenersMayStart_Early == rpc \in {"create", "listen"}

\* lines 250-251: the second loop follows the first
ListenersMayStart == rpc = "listen"

\* a wg.Done() deferred in each listener goroutine
WgAfterExit_Done(n) == IF n > 0 THEN n - 1 ELSE n

\* lines 253-257: a goroutine that ends never calls wg.Done()
WgAfterExit(n) == n

InitRun ==
  /\ dh = [Versioned |-> FALSE, Prefix |-> <<>>, Auth |-> FALSE]
  /\ r = NoRequest
  /\ pc = "idle"
  /\ components = <<>>
  /\ pid = <<>>
  /\ version = -1
  /\ decision = "none"
  /\ err = "nil"
  /\ dsinfo = NoInfo
  /\ info = NoInfo
  /\ content = NoContent
  /\ deferred = <<>>
  /\ copyErr = "none"
  /\ w = NewResponse
  /\ calls = <<>>
  /\ config \in Configs
  /\ rpc = "create"
  /\ todo = DOMAIN config
  /\ hs = EmptyMap
  /\ ks = EmptyMap
  /\ portHandlers = EmptyMap
  /\ muxCalls = {}
  /\ listeners = EmptyMap
  /\ wg = 0
  /\ lastServed = NotServed

\* lines 201-249: one iteration of the first loop, over any section left
CreateHandler ==
  /\ rpc = "create"
  /\ \E k \in todo :
       LET v == config[k]
           mux == IF v.Port \in DOMAIN portHandlers THEN portHandlers[v.Port]
                  ELSE NewMux
       IN  /\ hs' = Put(hs, HVar(k), HandlerOf(v))
           /\ ks' = Put(ks, KVar(k), k)
           /\ portHandlers' =
                Put(portHandlers, v.Port, Register(mux, v.Datastream_id, Closure(k)))
           /\ muxCalls' = muxCalls \cup WritesOf(v.Port, v.Datastream_id, Closure(k))
           /\ todo' = todo \ {k}
           /\ rpc' = IF todo \ {k} = {} THEN "listen" ELSE rpc
  /\ UNCHANGED <<config, listeners, wg, lastServed>>
  /\ UNCHANGED svars

\* lines 251-254: one iteration of the second loop, over any port left
StartListener ==
  /\ ListenersMayStart
  /\ \E port \in DOMAIN portHandlers \ DOMAIN listeners :
       /\ wg' = wg + 1
       /\ listeners' = Put(listeners, port, "running")
       /\ rpc' = IF rpc = "listen" /\ DOMAIN portHandlers \subseteq DOMAIN listeners \cup {port}
                 THEN "pprof" ELSE rpc
  /\ UNCHANGED <<config, todo, hs, ks, portHandlers, muxCalls, lastServed>>
  /\ UNCHANGED svars

\* line 256
StartPprof ==
  /\ rpc = "pprof"
  /\ listeners' = Put(listeners, PprofPort, "running")
  /\ rpc' = "wait"
  /\ UNCHANGED <<config, todo, hs, ks, portHandlers, muxCalls, wg, lastServed>>
  /\ UNCHANGED svars

\* line 258: wg.Wait() returns at once when the counter is zero
WgWait ==
  /\ rpc = "wait"
  /\ rpc' = IF wg = 0 THEN "returned" ELSE "blocked"
  /\ UNCHANGED <<config, todo, hs, ks, portHandlers, muxCalls, listeners, wg,
                 lastServed>>
  /\ UNCHANGED svars

\* http.ListenAndServe returns (the port cannot be bound, the listener
\* fails) and its goroutine ends; a blocked wg.Wait() wakes when the counter
\* reaches zero
ListenerExit ==
  /\ \E p \in DOMAIN listeners :
       /\ listeners[p] = "running"
       /\ listeners' = [listeners EXCEPT ![p] = "exited"]
  /\ wg' = WgAfterExit(wg)
  /\ rpc' = IF rpc = "blocked" /\ WgAfterExit(wg) = 0 THEN "returned" ELSE rpc
  /\ UNCHANGED <<config, todo, hs, ks, portHandlers, muxCalls, lastServed>>
  /\ UNCHANGED svars

\* a running listener serves a request: its router picks the handler for
\* the first segment and calls it
Dispatch ==
  /\ \E p \in DOMAIN listeners \cap DOMAIN portHandlers, seg \in RequestSegs :
       /\ listeners[p] = "running"
       /\ lastServed' =
            [port |-> p, seg |-> seg, target |-> Invoke(Lookup(portHandlers[p], seg))]
  /\ UNCHANGED <<config, rpc, todo, hs, ks, portHandlers, muxCalls, listeners, wg>>
  /\ UNCHANGED svars

NextRun ==
  \/ CreateHandler
  \/ StartListener
  \/ StartPprof
  \/ WgWait
  \/ ListenerExit
  \/ Dispatch

SpecRun == InitRun /\ [][NextRun]_vars

----------------------------------------------------------------------------
(* Vocabulary of the properties *)

RepoOps == {"GetDatastreamInfo", "GetDatastream"}

Called(op) == \E i \in 1..Len(calls) : calls[i].op = op

NoRepoCall == \A i \in 1..Len(calls) : calls[i].op \notin RepoOps

\* ServeHTTP has produced its terminal response
Terminal == pc \in {"return", "done"}

\* the request passed the authorization stage
Authorized == pc \notin {"idle", "gate", "auth"} /\ (dh.Auth => decision = AuthAllow)

\* the second path segment reads as a non-negative integer
TokenValid ==
  /\ Len(components) = 2
  /\ ~Atoi(components[2]).err
  /\ Atoi(components[2]).val >= 0

\* the text after the last '.' of a version identifier; none without a '.'
HasSuffix(vid) == \E i \in 1..Len(vid) : vid[i] = "."

SuffixOf(vid) ==
  LET dots == {i \in 1..Len(vid) : vid[i] = "."}
      last == CHOOSE i \in dots : \A j \in dots : j <= i
  IN  SubSeq(vid, last + 1, Len(vid))

\* the token n is the integer after the last '.' of vid
IsCurrent(n, vid) ==
  /\ HasSuffix(vid)
  /\ ~Atoi(SuffixOf(vid)).err
  /\ Atoi(SuffixOf(vid)).val = n

\* the metadata fetch of this request succeeded
InfoFetched == Called("GetDatastreamInfo") /\ dsinfo # NoInfo

\* the content fetch of this request succeeded
ContentFetched == Called("GetDatastream") /\ info # NoInfo

\* the headers and body http.Error leaves on a fresh response
ErrorResponse(msg, code) == HttpError(NewResponse, msg, code)

----------------------------------------------------------------------------
(* Properties *)

\* C1: with an Authorization Checker configured, every Repository Client
\* call of a request comes after an Auth.Check of the same identifier that
\* returned Allow; after Deny or NotFound the request ends with no
\* Repository Client call.
C1_NoRepoCallUnlessAllowed ==
  dh.Auth =>
    /\ \A i \in 1..Len(calls) :
         calls[i].op \in RepoOps =>
           /\ decision = AuthAllow
           /\ \E j \in 1..(i - 1) : calls[j] = [op |-> "Check", arg |-> calls[i].arg]
    /\ decision \in {AuthDeny, AuthNotFound} => Terminal /\ NoRepoCall

C1_Witness ==
  /\ pc = "done"
  /\ dh.Auth
  /\ decision = AuthDeny
  /\ Len(calls) = 1
  /\ w.status = 401

\* C2: the step that calls Auth.Check ends the request with 401 on Deny, 404
\* on NotFound and 500 on Error or any unnamed decision, and moves on to the
\* version stage, the response untouched, on Allow only; a status set by the
\* authorization stage is the status of the finished response.
C2_AuthDecisionMapping ==
  /\ [][(pc = "auth" /\ dh.Auth) =>
          CASE decision' = AuthAllow -> pc' = "version" /\ w' = w
            [] decision' = AuthDeny ->
                 pc' = "return" /\ w' = ErrorResponse("401 Unauthorized", 401)
            [] decision' = AuthNotFound ->
                 pc' = "return" /\ w' = ErrorResponse("404 Not Found", 404)
            [] OTHER ->
                 pc' = "return" /\ w' = ErrorResponse("500 Server Error", 500)]_vars
  /\ [][(pc = "return" /\ w.status # 0) => w'.status = w.status]_vars

C2_Witness ==
  /\ pc = "done"
  /\ dh.Auth
  /\ decision \notin {AuthAllow, AuthDeny, AuthNotFound, AuthError, "none"}
  /\ w.status = 500

\* C3: a request whose method is not GET is answered 404 whatever its path,
\* its headers and the handler's configuration, and no collaborator is
\* called for it.
C3_NonGetIs404 ==
  r.Method \notin {"", "GET"} =>
    /\ calls = <<>>
    /\ pc \in {"gate", "return", "done"}
    /\ Terminal => w = ErrorResponse("404 Not Found", 404)

C3_Witness ==
  /\ pc = "done"
  /\ r.Method = "POST"
  /\ dh.Auth
  /\ dh.Versioned
  /\ r.IfNoneMatch.ok
  /\ Len(r.Path) > 1
  /\ w.status = 404

\* C4: on a versioned handler, a GET /<id>/<N> with N a non-negative
\* integer, authorization passed, the metadata fetched and no If-None-Match
\* header: if N is the integer after the last '.' of the metadata's version
\* identifier the request goes on to the content fetch and is answered 200
\* when that succeeds; for every other N it is answered 403 and
\* GetDatastream is not called.
C4_VersionedRequest ==
  ( /\ pc = "done"
    /\ dh.Versioned
    /\ r.Method = "GET"
    /\ TokenValid
    /\ Authorized
    /\ InfoFetched
    /\ ~r.IfNoneMatch.ok ) =>
      IF IsCurrent(Atoi(components[2]).val, dsinfo.VersionID)
      THEN /\ Called("GetDatastream")
           /\ ContentFetched => w.status = 200
      ELSE /\ w.status = 403
           /\ ~Called("GetDatastream")

C4_Witness ==
  /\ pc = "done"
  /\ dh.Versioned
  /\ TokenValid
  /\ Authorized
  /\ ~r.IfNoneMatch.ok
  /\ dsinfo.VersionID = <<"a", ".", "3">>
  /\ Atoi(components[2]).val = 3
  /\ ContentFetched
  /\ w.status = 200

\* C5: a GET request that passed authorization and has a second path
\* segment, on a handler that is not versioned or with a segment that does
\* not read as a non-negative integer, is answered 404 and no Repository
\* Client call is made.
C5_BadVersionSegment ==
  ( /\ r.Method = "GET"
    /\ Authorized
    /\ pc # "version"
    /\ Len(components) = 2
    /\ (~dh.Versioned \/ ~TokenValid) ) =>
      /\ Terminal
      /\ w = ErrorResponse("404 Not Found", 404)
      /\ NoRepoCall

C5_Witness ==
  /\ pc = "done"
  /\ r.Method = "GET"
  /\ Authorized
  /\ ~dh.Versioned
  /\ TokenValid
  /\ w.status = 404

\* C6: a request that got past the version check with the metadata fetched
\* and one of whose If-None-Match values is the metadata's version
\* identifier is answered 304 with ETag set to that identifier, no other
\* header, an empty body, and no call of GetDatastream.
C6_NotModified ==
  ( /\ pc \in {"content", "copy", "return", "done"}
    /\ InfoFetched
    /\ (version < 0 \/ IsCurrent(version, dsinfo.VersionID))
    /\ r.IfNoneMatch.ok
    /\ \E i \in 1..Len(r.IfNoneMatch.vals) :
         r.IfNoneMatch.vals[i] = dsinfo.VersionID ) =>
      /\ Terminal
      /\ w.status = 304
      /\ w.header = [NewResponse.header EXCEPT !["ETag"] = dsinfo.VersionID]
      /\ w.body = <<>>
      /\ ~Called("GetDatastream")

C6_Witness ==
  /\ pc = "done"
  /\ InfoFetched
  /\ Len(r.IfNoneMatch.vals) = 2
  /\ r.IfNoneMatch.vals[1] # dsinfo.VersionID
  /\ r.IfNoneMatch.vals[2] = dsinfo.VersionID
  /\ w.status = 304

\* C7: when GetDatastreamInfo returns the not-found sentinel the response is
\* 404 and GetDatastream is not called.
C7_InfoNotFound ==
  ( /\ Len(calls) > 0
    /\ calls[Len(calls)].op = "GetDatastreamInfo"
    /\ err = FedoraNotFound ) =>
      /\ Terminal
      /\ w.status = 404
      /\ ~Called("GetDatastream")

C7_Witness ==
  /\ pc = "done"
  /\ Len(calls) > 0
  /\ calls[Len(calls)].op = "GetDatastreamInfo"
  /\ err = FedoraNotFound
  /\ w.status = 404

\* C8: when GetDatastreamInfo fails with an error other than the not-found
\* sentinel the response is 500; only the sentinel gives 404 at this stage.
C8_InfoOtherErrorIs500 ==
  ( /\ Terminal
    /\ Len(calls) > 0
    /\ calls[Len(calls)].op = "GetDatastreamInfo"
    /\ err \notin {"nil", FedoraNotFound} ) =>
      w.status = 500

\* C9: when GetDatastream fails after the metadata was fetched the response
\* is 404 for the not-found sentinel and 500 for any other error; it carries
\* the headers and the message of the error alone: none of the success
\* headers is set, no byte of content is written and no stream is open.
C9_ContentError ==
  ( /\ Len(calls) > 0
    /\ calls[Len(calls)].op = "GetDatastream"
    /\ err # "nil" ) =>
      /\ InfoFetched
      /\ Terminal
      /\ w = IF err = FedoraNotFound THEN ErrorResponse("404 Not Found", 404)
             ELSE ErrorResponse("500 Internal Error", 500)
      /\ w.header["Content-Length"] = <<>>
      /\ w.header["ETag"] = <<>>
      /\ content = NoContent
      /\ copyErr = "none"

C9_Witness ==
  /\ pc = "done"
  /\ Len(calls) > 0
  /\ calls[Len(calls)].op = "GetDatastream"
  /\ err = "OtherError"
  /\ w.status = 500

\* C10: a byte stream that GetDatastream returned is closed exactly once by
\* the time ServeHTTP has returned, however io.Copy ended; it is never
\* closed twice, and Close is never called when GetDatastream was not called
\* or failed.
C10_ClosedExactlyOnce ==
  /\ content.closed <= 1
  /\ (pc = "done" /\ ContentFetched) => (content.closed = 1 /\ ~content.open)
  /\ ~ContentFetched => (content.closed = 0 /\ ~Called("Close"))
  /\ Cardinality({i \in 1..Len(calls) : calls[i].op = "Close"}) = content.closed

C10_Witness ==
  /\ pc = "done"
  /\ ContentFetched
  /\ copyErr = "write"
  /\ content.read = 1
  /\ content.closed = 1

\* C11: on a handler with an Authorization Checker every GET request is put
\* to the checker under the identifier of its first segment before anything
\* else is decided, and when the decision is not Allow the response is the
\* one of that decision alone: the same status, headers and body whatever
\* the second path segment, the Versioned flag and the repository are, with
\* no call but the Check.
DeniedResponse(d) ==
  CASE d = AuthDeny -> ErrorResponse("401 Unauthorized", 401)
    [] d = AuthNotFound -> ErrorResponse("404 Not Found", 404)
    [] OTHER -> ErrorResponse("500 Server Error", 500)

C11_DeniedResponseByDecisionOnly ==
  (dh.Auth /\ r.Method = "GET" /\ pc \notin {"idle", "gate", "auth"}) =>
    /\ decision # "none"
    /\ calls[1] = [op |-> "Check", arg |-> dh.Prefix \o components[1]]
    /\ decision # AuthAllow =>
         /\ Terminal
         /\ w = DeniedResponse(decision)
         /\ Len(calls) = 1

C11_Witness ==
  /\ pc = "done"
  /\ dh.Auth
  /\ ~dh.Versioned
  /\ decision = AuthDeny
  /\ Len(components) = 2
  /\ ~TokenValid
  /\ w.status = 401

\* C12: on every 200 response the ETag header is the version identifier of
\* the descriptor GetDatastream returned with the content streamed.
C12_ETagIsStreamedVersion ==
  (pc = "done" /\ ContentFetched /\ w.status = 200) =>
    w.header["ETag"] = info.VersionID

\* C13: the collaborator calls of a request come in the order Auth.Check,
\* GetDatastreamInfo, GetDatastream (then the deferred Close), each at most
\* once; GetDatastream only after GetDatastreamInfo succeeded; and once a
\* stage has produced the response nothing follows but the return.
CallRank(op) ==
  CASE op = "Check" -> 1
    [] op = "GetDatastreamInfo" -> 2
    [] op = "GetDatastream" -> 3
    [] OTHER -> 4

CallsInOrder ==
  /\ \A i, j \in 1..Len(calls) :
       i < j => CallRank(calls[i].op) < CallRank(calls[j].op)
  /\ Called("Check") => dh.Auth
  /\ Called("GetDatastream") => InfoFetched
  /\ (Called("GetDatastreamInfo") /\ dsinfo = NoInfo) => Terminal

C13_StagesInOrderOnce ==
  /\ []CallsInOrder
  /\ [][pc = "return" =>
          /\ pc' = "done"
          /\ w.status # 0 => w' = w
          /\ \A i \in 1..Len(calls') : i > Len(calls) => calls'[i].op = "Close"]_vars
  /\ [][pc # "done"]_vars

C13_Witness ==
  /\ pc = "done"
  /\ Len(calls) = 4
  /\ calls[1].op = "Check"
  /\ calls[2].op = "GetDatastreamInfo"
  /\ calls[3].op = "GetDatastream"
  /\ calls[4].op = "Close"

\* C17: when the metadata's version identifier has no '.' or no integer
\* after its last '.', currentVersion is -1; a request with a version token
\* is then answered 403 without a content fetch, and a request without a
\* version segment goes on to the If-None-Match check and the content fetch
\* as usual.
Unparsable(vid) == ~HasSuffix(vid) \/ Atoi(SuffixOf(vid)).err

HeaderHas(vid) ==
  r.IfNoneMatch.ok /\ \E i \in 1..Len(r.IfNoneMatch.vals) : r.IfNoneMatch.vals[i] = vid

C17_UnparsableVersionIs403 ==
  (InfoFetched /\ Unparsable(dsinfo.VersionID)) =>
    /\ currentVersion(dsinfo) = -1
    /\ pc # "reconcile" =>
         IF Len(components) = 2
         THEN /\ version >= 0
              /\ Terminal
              /\ w = ErrorResponse("403 Forbidden", 403)
              /\ ~Called("GetDatastream")
         ELSE IF HeaderHas(dsinfo.VersionID)
              THEN Terminal /\ w.status = 304
              ELSE pc = "content" \/ Called("GetDatastream")

C17_Witness ==
  /\ pc = "done"
  /\ dh.Versioned
  /\ InfoFetched
  /\ dsinfo.VersionID = <<"3", ".", "a">>
  /\ version = 3
  /\ HeaderHas(<<"a", ".", "3">>)
  /\ w.status = 403

\* C18: the version check comes before the If-None-Match check: a request
\* whose version token is not the current version number is answered 403
\* even when If-None-Match holds the current version identifier, and 304 is
\* only given to a request with no version segment or with the current
\* version number.
C18_VersionCheckBeforeETag ==
  /\ ( /\ InfoFetched
       /\ pc # "reconcile"
       /\ version >= 0
       /\ ~IsCurrent(version, dsinfo.VersionID) ) =>
         /\ Terminal
         /\ w = ErrorResponse("403 Forbidden", 403)
  /\ w.status = 304 =>
       \/ Len(components) = 1
       \/ IsCurrent(Atoi(components[2]).val, dsinfo.VersionID)

C18_Witness ==
  /\ pc = "done"
  /\ InfoFetched
  /\ version = 3
  /\ dsinfo.VersionID = <<"a", ".", "3", "3">>
  /\ HeaderHas(dsinfo.VersionID)
  /\ w.status = 403

\* Path parsing, stated apart from the code: what is left of a path after
\* dropping separators at its ends, and its split at the first separator.
DropLeadOne(p) == IF p # <<>> /\ Head(p) = "/" THEN Tail(p) ELSE p

DropTrailOne(p) ==
  IF p # <<>> /\ p[Len(p)] = "/" THEN [i \in 1..(Len(p) - 1) |-> p[i]] ELSE p

RECURSIVE DropLeadAll(_)
DropLeadAll(p) == IF p # <<>> /\ Head(p) = "/" THEN DropLeadAll(Tail(p)) ELSE p

RECURSIVE DropTrailAll(_)
DropTrailAll(p) ==
  IF p # <<>> /\ p[Len(p)] = "/"
  THEN DropTrailAll([i \in 1..(Len(p) - 1) |-> p[i]])
  ELSE p

Separators(p) == {i \in 1..Len(p) : p[i] = "/"}

\* the at most two segments of p around its first separator
SegmentsOf(p) ==
  IF Separators(p) = {} THEN <<p>>
  ELSE LET f == CHOOSE i \in Separators(p) : \A j \in Separators(p) : i <= j
       IN  <<[i \in 1..(f - 1) |-> p[i]], [i \in 1..(Len(p) - f) |-> p[f + i]]>>

\* the parsing of the request's path gave the segments of core
ParsedAs(core) ==
  /\ components = SegmentsOf(core)
  /\ pid = dh.Prefix \o SegmentsOf(core)[1]
  /\ Separators(components[1]) = {}
  /\ \A i \in 1..Len(calls) :
       calls[i].op \in RepoOps \cup {"Check"} => calls[i].arg = pid

Parsed == r.Method = "GET" /\ pc \notin {"idle", "gate"}

\* C19 as claimed: every leading and trailing separator of the path is
\* stripped before the split, so that "//3" and "/3//" give the identifier
\* suffix "3" and no version segment.
C19_StripsAllSeparators ==
  Parsed => ParsedAs(DropTrailAll(DropLeadAll(r.Path)))

\* C19 as amended: at most one leading and then at most one trailing
\* separator is stripped; the rest is split at its first separator into at
\* most two segments, the first of which, after the prefix, is the
\* identifier handed to the checker and the repository and holds no '/',
\* the second the candidate version token.
C19_StripsOneSeparator ==
  Parsed => ParsedAs(DropTrailOne(DropLeadOne(r.Path)))

C19_Witness ==
  /\ pc = "done"
  /\ dh.Auth
  /\ r.Method = "GET"
  /\ r.Path = <<"/", "/", "3">>
  /\ components = <<<<>>, <<"3">>>>
  /\ pid = dh.Prefix
  /\ Called("Check")

----------------------------------------------------------------------------
(* Properties of runHandlers *)

\* the sections the first loop has been through
Created == DOMAIN config \ todo

Ids(k) == config[k].Datastream_id

\* section k lists the segment name
Lists(k, name) == \E i \in 1..Len(Ids(k)) : Ids(k)[i] = name

\* section k claims the default of its port's router
ClaimsDefault(k) == Len(Ids(k)) = 0 \/ Lists(k, "default")

ConfiguredPorts == {config[k].Port : k \in DOMAIN config}

\* the routers' listeners, the pprof listener apart
RouterListeners == DOMAIN listeners \ {PprofPort}

\* C14: every write to a router or to a pipeline is made before the first
\* listener goroutine is started: once a listener exists the first loop is
\* over, and no later step, the dispatching of requests included, changes a
\* router, a registration or a captured variable.
C14_ConstructThenFreeze ==
  /\ [](DOMAIN listeners # {} => todo = {})
  /\ [][DOMAIN listeners # {} =>
          UNCHANGED <<portHandlers, muxCalls, hs, ks, config>>]_vars

C14_Witness ==
  /\ rpc = "listen"
  /\ Cardinality(DOMAIN portHandlers) = 2
  /\ Cardinality(DOMAIN listeners) = 1
  /\ lastServed.target.found

\* C15: a section with no Datastream_id is made the default of the router
\* of its port; a section listing "default" is made that router's default
\* and AddHandler is never called with "default"; every other name listed
\* is registered with AddHandler on the router of the section's own port,
\* and no registration is made on another port's router.
C15_RouteComposition ==
  /\ \A k \in Created :
       /\ Len(Ids(k)) = 0 =>
            [op |-> "DefaultHandler", port |-> config[k].Port, name |-> "",
             hh |-> Closure(k)] \in muxCalls
       /\ \A i \in 1..Len(Ids(k)) :
            [op |-> IF Ids(k)[i] = "default" THEN "DefaultHandler" ELSE "AddHandler",
             port |-> config[k].Port, name |-> Ids(k)[i],
             hh |-> Closure(k)] \in muxCalls
       /\ (ClaimsDefault(k) /\ \A o \in Created \ {k} :
             config[o].Port = config[k].Port => ~ClaimsDefault(o)) =>
            portHandlers[config[k].Port].DefaultHandler = Closure(k)
  /\ \A c \in muxCalls :
       /\ c.op = "AddHandler" => c.name # "default"
       /\ \E k \in Created :
            /\ c.hh = Closure(k)
            /\ c.port = config[k].Port
            /\ IF c.op = "AddHandler" THEN Lists(k, c.name) ELSE ClaimsDefault(k)
  /\ DOMAIN portHandlers = {config[k].Port : k \in Created}

C15_Witness ==
  /\ todo = {}
  /\ DOMAIN config = {"h1", "h2"}
  /\ config["h1"].Port # config["h2"].Port
  /\ Ids("h1") = <<"a", "default">>
  /\ Ids("h2") = <<>>
  /\ portHandlers[config["h1"].Port].DefaultHandler = Closure("h1")
  /\ portHandlers[config["h2"].Port].DefaultHandler = Closure("h2")

Unambiguous ==
  \A k, o \in DOMAIN config :
       (k # o /\ config[k].Port = config[o].Port) =>
         /\ \A name \in SegNames \ {"default"} : ~(Lists(k, name) /\ Lists(o, name))
         /\ ~(ClaimsDefault(k) /\ ClaimsDefault(o))

\* the registrations the configuration declares, whatever the order
WritesDeclaredBy(k) ==
  LET hh == [h |-> k, k |-> k]
      bare == IF Ids(k) = <<>>
              THEN {[op |-> "DefaultHandler", port |-> config[k].Port,
                     name |-> "", hh |-> hh]}
              ELSE {}
      named == {[op |-> IF name = "default" THEN "DefaultHandler" ELSE "AddHandler",
                 port |-> config[k].Port, name |-> name, hh |-> hh] :
                name \in {n \in SegNames : Lists(k, n)}}
  IN  bare \cup named

DeclaredWrites == UNION {WritesDeclaredBy(k) : k \in DOMAIN config}

\* what calling the handler of section k must reach
PipelineOf(k) ==
  [found |-> TRUE,
   h |-> [Ds |-> config[k].Datastream, Versioned |-> config[k].Versioned,
          Prefix |-> config[k].Prefix, Auth |-> config[k].Auth],
   k |-> k]

\* the section that declared the binding of seg on port p; "" when none did
DeclaringSection(p, seg) ==
  LET named == {k \in DOMAIN config : config[k].Port = p /\ seg # "default" /\ Lists(k, seg)}
      dflt == {k \in DOMAIN config : config[k].Port = p /\ ClaimsDefault(k)}
  IN  IF named # {} THEN CHOOSE k \in named : TRUE
      ELSE IF dflt # {} THEN CHOOSE k \in dflt : TRUE
      ELSE ""

\* C20: when the configuration is unambiguous, every order of the first
\* loop ends with the same registrations, one for each (port, segment) and
\* one default at most for each port, each made with a handler that calls
\* the pipeline built from the section that declared it, under that
\* section's name; and the default of each router calls the pipeline of the
\* one section that claimed it.
C20_OrderIndependentRoutes ==
  (Unambiguous /\ todo = {}) =>
    /\ muxCalls = DeclaredWrites
    /\ \A c \in muxCalls : Invoke(c.hh) = PipelineOf(c.hh.k)
    /\ \A c, d \in muxCalls :
         (c.port = d.port /\ c.op = d.op /\ (c.op = "AddHandler" => c.name = d.name))
           => c.hh = d.hh
    /\ \A p \in DOMAIN portHandlers :
         Invoke(portHandlers[p].DefaultHandler) =
           IF \E k \in DOMAIN config : config[k].Port = p /\ ClaimsDefault(k)
           THEN PipelineOf(DeclaringSection(p, "default"))
           ELSE NoTarget

C20_Witness ==
  /\ Unambiguous
  /\ DOMAIN config = {"h1", "h2"}
  /\ config["h1"].Port = config["h2"].Port
  /\ Ids("h1") = <<"a", "b">>
  /\ Ids("h2") = <<"default">>
  /\ todo = {}
  /\ \E c \in muxCalls :
       /\ c.op = "AddHandler" /\ c.name = "b"
       /\ Invoke(c.hh) = PipelineOf("h1")
  /\ Invoke(portHandlers[config["h1"].Port].DefaultHandler) = PipelineOf("h2")

====
